---- MODULE Spec2Model ----
(***************************************************************************)
(* Mobile simulator: the Device Profile Store (config_manager.py) and the  *)
(* layout arithmetic and event handlers of PhoneSimulator (main.py).       *)
(*                                                                         *)
(* Conventions.                                                            *)
(*  - Indices are 0-based as in the Python source; sequences are 1-based,  *)
(*    so element i of a Python list l is l[i + 1] here.                    *)
(*  - A scale is a Python float p/100.0; it is held as the integer p       *)
(*    (hundredths).  int(k * scale) is computed by IntOfProduct, which     *)
(*    follows the IEEE-754 double product.                                 *)
(*  - A text typed into a line edit is a sequence of one-character         *)
(*    strings; int(text) is computed by int_text.                          *)
(*  - The persisted file is <<>> when absent and <<content>> otherwise.    *)
(*  - api_call is the last call a client made directly on a ConfigManager  *)
(*    (StoreSpec); the application (Spec) makes none.                      *)
(***************************************************************************)
EXTENDS Integers, Sequences, FiniteSets, TLC

VARIABLES config, file, device_combo, scale_combo, frame_combo,
          phone_frame, bezel_overlay, screen_widget, island, phone_copy,
          status_color, browser, window, dialog, exception, api_call

vars == <<config, file, device_combo, scale_combo, frame_combo,
          phone_frame, bezel_overlay, screen_widget, island, phone_copy,
          status_color, browser, window, dialog, exception, api_call>>

(***************************************************************************)
(* Bounds of the model.                                                    *)
(***************************************************************************)
\* Largest number of custom devices the model lets the list grow to.
MaxCustom == 2

(***************************************************************************)
(* Small helpers.                                                          *)
(***************************************************************************)
Abs(n) == IF n < 0 THEN -n ELSE n

Max(a, b) == IF a >= b THEN a ELSE b

RemoveAt(seq, i) == SubSeq(seq, 1, i - 1) \o SubSeq(seq, i + 1, Len(seq))

RECURSIVE Pow2Floor(_)
\* The largest power of two that is <= n, for n >= 1.
Pow2Floor(n) == IF n < 2 THEN 1 ELSE 2 * Pow2Floor(n \div 2)

(***************************************************************************)
(* Floating point.  int(k * scale) for an int k and the double scale =     *)
(* pct/100.0.  Python's int() truncates toward zero.  The double nearest   *)
(* to 0.7 lies 0.4 ulp below 0.7, so when 0.7*k is an integer N the        *)
(* product k*0.7 rounds to the double just below N, and truncates to N-1,  *)
(* exactly when N lies strictly between 1.75*2^j and 2^(j+1) (e.g.         *)
(* int(90*0.7) = 62, int(390*0.7) = 273).  For the other scales the model  *)
(* uses (0.05, 0.5, 0.6, 0.75, 0.8, 0.9, 1.0) the truncated double product *)
(* equals the truncated exact product for every |k| <= 2000.               *)
(***************************************************************************)
\* Mutant: the product rounded to the nearest integer instead of truncated.
IntOfProduct_rounded(k, pct) ==
    IF k >= 0 THEN (k * pct + 50) \div 100 ELSE -((Abs(k) * pct + 50) \div 100)

IntOfProduct(k, pct) ==
    LET a    == Abs(k)
        ex   == (a * pct) \div 100
        low  == /\ pct = 70
                /\ (a * pct) % 100 = 0
                /\ ex > 0
                /\ 4 * ex > 7 * Pow2Floor(ex)
        m    == IF low THEN ex - 1 ELSE ex
    IN  IF k >= 0 THEN m ELSE -m

\* int(scale * 100) for scale = pct/100.0 (main.py:191); the double product
\* falls just under the integer for these values of pct.
IntScaleTimes100(pct) ==
    IF pct \in {29, 57, 58, 113, 114, 115, 116} THEN pct - 1 ELSE pct

(***************************************************************************)
(* Text input.  int(text): surrounding blanks are stripped, then an        *)
(* optional sign and at least one decimal digit; anything else raises      *)
(* ValueError.                                                             *)
(***************************************************************************)
Digits == {"0", "1", "2", "3", "4", "5", "6", "7", "8", "9"}

DigitVal(c) ==
    CASE c = "0" -> 0 [] c = "1" -> 1 [] c = "2" -> 2 [] c = "3" -> 3
      [] c = "4" -> 4 [] c = "5" -> 5 [] c = "6" -> 6 [] c = "7" -> 7
      [] c = "8" -> 8 [] c = "9" -> 9

RECURSIVE Strip(_)
Strip(t) ==
    IF t = <<>> THEN t
    ELSE IF Head(t) = " " THEN Strip(Tail(t))
    ELSE IF t[Len(t)] = " " THEN Strip(SubSeq(t, 1, Len(t) - 1))
    ELSE t

RECURSIVE DigitsValue(_, _)
DigitsValue(t, acc) ==
    IF t = <<>> THEN acc ELSE DigitsValue(Tail(t), 10 * acc + DigitVal(Head(t)))

\* [ok |-> TRUE, value |-> n] or [ok |-> FALSE, value |-> 0] for ValueError.
int_text(text) ==
    LET t      == Strip(text)
        signed == t # <<>> /\ Head(t) \in {"-", "+"}
        body   == IF signed THEN Tail(t) ELSE t
        good   == body # <<>> /\ \A i \in 1..Len(body) : body[i] \in Digits
    IN  IF ~good THEN [ok |-> FALSE, value |-> 0]
        ELSE [ok |-> TRUE,
              value |-> IF signed /\ Head(t) = "-"
                        THEN -DigitsValue(body, 0) ELSE DigitsValue(body, 0)]

(***************************************************************************)
(* ConfigManager (config_manager.py).                                      *)
(***************************************************************************)
Device(n, w, h, r) == [name |-> n, width |-> w, height |-> h, radius |-> r]

DEFAULT_DEVICES ==
    << Device("iPhone 17", 393, 852, 55),
       Device("iPhone 16", 393, 852, 55),
       Device("iPhone 13/14/15", 390, 844, 50),
       Device("iPhone Pro Max", 430, 932, 55),
       Device("iPhone Mini", 375, 812, 45) >>

\* A URL is a sequence of tokens; url.startswith("http") looks at the first.
DefaultUrl == <<"http://", "localhost:5173">>

DefaultConfig ==
    [last_url          |-> DefaultUrl,
     last_device_index |-> 2,
     last_frame_color  |-> "#111",
     last_frame_border |-> "#444",
     last_scale        |-> 70,
     custom_devices    |-> <<>>]

\* json.load of the file when it exists, the default object otherwise.
load_config(f) == IF f # <<>> THEN f[1] ELSE DefaultConfig

\* json.dump of the whole in-memory configuration over the file.
save_config(s) == [s EXCEPT !.file = <<s.config>>]

\* Mutant: the custom devices listed before the built-in ones.
get_all_devices_custom_first(cfg) == cfg.custom_devices \o DEFAULT_DEVICES

get_all_devices(cfg) == DEFAULT_DEVICES \o cfg.custom_devices

\* Mutant: the new device inserted at the front of the custom list.
add_custom_device_front(s, name, width, height, radius) ==
    save_config([s EXCEPT !.config.custom_devices =
                              <<Device(name, width, height, radius)>> \o @])

add_custom_device(s, name, width, height, radius) ==
    save_config([s EXCEPT !.config.custom_devices =
                              Append(@, Device(name, width, height, radius))])

\* Mutant: pop() without the index, which removes the last custom device.
delete_custom_device_last(s, index) ==
    IF 0 <= index /\ index < Len(s.config.custom_devices)
    THEN save_config([s EXCEPT !.config.custom_devices = RemoveAt(@, Len(@))])
    ELSE s

\* Mutant: the lower bound of the index check dropped, so that a negative
\* index counts from the end as Python's list.pop does.
delete_custom_device_wraps(s, index) ==
    LET n == Len(s.config.custom_devices)
    IN  IF index < n /\ -n <= index
        THEN save_config([s EXCEPT !.config.custom_devices =
                             RemoveAt(@, IF index >= 0 THEN index + 1 ELSE n + index + 1)])
        ELSE s

delete_custom_device(s, index) ==
    IF 0 <= index /\ index < Len(s.config.custom_devices)
    THEN save_config([s EXCEPT !.config.custom_devices = RemoveAt(@, index + 1)])
    ELSE s

\* Mutant: the replacement made in memory but never saved.
update_custom_device_unsaved(s, index, name, width, height, radius) ==
    IF 0 <= index /\ index < Len(s.config.custom_devices)
    THEN [s EXCEPT !.config.custom_devices[index + 1] =
                       Device(name, width, height, radius)]
    ELSE s

update_custom_device(s, index, name, width, height, radius) ==
    IF 0 <= index /\ index < Len(s.config.custom_devices)
    THEN save_config([s EXCEPT !.config.custom_devices[index + 1] =
                                   Device(name, width, height, radius)])
    ELSE s

(***************************************************************************)
(* PhoneSimulator widgets (main.py).                                       *)
(***************************************************************************)
\* self.frame_colors in insertion order: black, gold, silver, blue, white.
frame_colors ==
    << [text |-> "black",  base |-> "#111",    border |-> "#444"],
       [text |-> "gold",   base |-> "#d4af37", border |-> "#b8860b"],
       [text |-> "silver", base |-> "#e5e5e5", border |-> "#a3a3a3"],
       [text |-> "blue",   base |-> "#3498db", border |-> "#2980b9"],
       [text |-> "white",  base |-> "#f0f0f0", border |-> "#ffffff"] >>

scale_items == <<"50%", "60%", "75%", "80%", "90%", "100%", "Auto">>

\* int(text.replace("%", "")) for the percentage entries of scale_items.
percent_of(text) ==
    CASE text = "50%" -> 50 [] text = "60%" -> 60 [] text = "75%" -> 75
      [] text = "80%" -> 80 [] text = "90%" -> 90 [] text = "100%" -> 100

\* The index of the entry f"{n}%" in scale_items, or -1 when there is none.
scale_index_of(n) ==
    IF \E i \in 1..6 : percent_of(scale_items[i]) = n
    THEN (CHOOSE i \in 1..6 : percent_of(scale_items[i]) = n) - 1
    ELSE -1

\* The combo label f"{d['name']} ({d['width']}x{d['height']})".
label(d) == <<d.name, d.width, d.height>>

RECURSIVE labels(_)
labels(devices) ==
    IF devices = <<>> THEN <<>>
    ELSE <<label(Head(devices))>> \o labels(Tail(devices))

\* devices[idx] if idx >= 0 else devices[0]
get_current_device(s) ==
    LET idx     == s.device_combo.currentIndex
        devices == get_all_devices(s.config)
    IN  IF idx >= 0 THEN devices[idx + 1] ELSE devices[1]

\* Whether devices[idx] raises IndexError.
current_device_out_of_range(s) ==
    s.device_combo.currentIndex >= Len(get_all_devices(s.config))

\* BezelOverlay.set_params: bezel_w = int(16 * scale).
set_params(radius, scale, base, border, w, h) ==
    [w |-> w, h |-> h, radius |-> radius, scale |-> scale,
     base_color |-> base, border_color |-> border,
     bezel_w |-> IntOfProduct(16, scale)]

\* BezelOverlay.paintEvent: the hole cut for the screen.
bezel_hole(b) ==
    LET margin == b.bezel_w
    IN  [x |-> margin, y |-> margin,
         w |-> b.w - 2 * margin, h |-> b.h - 2 * margin,
         r |-> Max(0, b.radius - margin)]

\* QWidget.width()/height() after setFixedSize: Qt refuses negative sizes.
frame_width(s) == Max(0, s.phone_frame.w)

frame_height(s) == Max(0, s.phone_frame.h)

update_island_pos(s) ==
    LET scale == s.config.last_scale
        w     == IntOfProduct(120, scale)
        h     == IntOfProduct(28, scale)
        bw    == s.bezel_overlay.bezel_w
    IN  [s EXCEPT !.island =
            [w |-> w, h |-> h, r |-> h \div 2,
             x |-> (frame_width(s) - w) \div 2,
             y |-> bw + IntOfProduct(10, scale)]]

update_phone_copy_pos(s) ==
    [s EXCEPT !.phone_copy = [w |-> frame_width(s), y |-> frame_height(s) - 12]]

\* Mutant: the margin subtracted once instead of on both sides.
screen_geometry_one_side(scaled_w, scaled_h, radius, bw) ==
    LET m == bw - 1
    IN  [x |-> m, y |-> m, w |-> scaled_w - m, h |-> scaled_h - m,
         mask_w |-> scaled_w - m, mask_h |-> scaled_h - m, mask_r |-> radius - m]

\* The geometry update_phone_style passes to the screen layer and its mask.
screen_geometry(scaled_w, scaled_h, radius, bw) ==
    LET bleed   == 1
        m       == bw - bleed
        w_inner == scaled_w - 2 * m
        h_inner == scaled_h - 2 * m
    IN  [x |-> m, y |-> m, w |-> w_inner, h |-> h_inner,
         mask_w |-> w_inner, mask_h |-> h_inner, mask_r |-> radius - m]

update_phone_style(s) ==
    IF current_device_out_of_range(s) THEN [s EXCEPT !.exception = "IndexError"]
    ELSE
    LET base     == s.config.last_frame_color
        border   == s.config.last_frame_border
        device   == get_current_device(s)
        scale    == s.config.last_scale
        scaled_w == IntOfProduct(device.width, scale)
        scaled_h == IntOfProduct(device.height, scale)
        radius   == IntOfProduct(device.radius, scale)
        overlay  == set_params(radius, scale, base, border, scaled_w, scaled_h)
        s1 == [s EXCEPT
                 !.phone_frame   = [w |-> scaled_w, h |-> scaled_h,
                                    shadow_blur |-> IntOfProduct(40, scale),
                                    shadow_y |-> IntOfProduct(15, scale)],
                 !.bezel_overlay = overlay,
                 !.screen_widget = screen_geometry(scaled_w, scaled_h, radius,
                                                   overlay.bezel_w),
                 !.status_color  = IF base \in {"#f0f0f0", "#ffffff", "#e5e5e5", "gold"}
                                   THEN "#333" ELSE "white",
                 !.browser.zoom  = scale]
    IN  update_phone_copy_pos(update_island_pos(s1))

adjust_window_size(s) ==
    IF current_device_out_of_range(s) THEN [s EXCEPT !.exception = "IndexError"]
    ELSE
    LET device   == get_current_device(s)
        scale    == s.config.last_scale
        scaled_w == IntOfProduct(device.width, scale)
        scaled_h == IntOfProduct(device.height, scale)
    IN  [s EXCEPT !.window = [w |-> Max(600, scaled_w + 100),
                              h |-> Max(500, scaled_h + 150)]]

on_device_changed(s) ==
    LET s1 == update_phone_style(s)
    IN  IF s1.exception # "none" THEN s1 ELSE adjust_window_size(s1)

\* QComboBox.setCurrentIndex: currentIndexChanged is emitted on a change only.
setCurrentIndex(s, i) ==
    IF i = s.device_combo.currentIndex THEN s
    ELSE on_device_changed([s EXCEPT !.device_combo.currentIndex = i])

\* clear() drops the selection to -1, the first addItem moves it to 0; both
\* emit currentIndexChanged once the signal is connected.
refresh_device_list(s) ==
    LET cleared == setCurrentIndex([s EXCEPT !.device_combo.items = <<>>], -1)
        filled  == [cleared EXCEPT !.device_combo.items =
                                       labels(get_all_devices(s.config))]
    IN  setCurrentIndex(filled, 0)

on_frame_changed(s) ==
    LET c == frame_colors[s.frame_combo + 1]
    IN  update_phone_style([s EXCEPT !.config.last_frame_color  = c.base,
                                     !.config.last_frame_border = c.border])

\* Mutant: the new scale is stored and saved but the phone is not restyled.
on_scale_changed_stale(s) ==
    LET text == scale_items[s.scale_combo + 1]
        val  == IF text = "Auto" THEN 75 ELSE percent_of(text)
        s1   == save_config([s EXCEPT !.config.last_scale = val])
    IN  adjust_window_size(s1)

on_scale_changed(s) ==
    LET text == scale_items[s.scale_combo + 1]
        val  == IF text = "Auto" THEN 75 ELSE percent_of(text)
        s1   == save_config([s EXCEPT !.config.last_scale = val])
        s2   == update_phone_style(s1)
    IN  IF s2.exception # "none" THEN s2 ELSE adjust_window_size(s2)

url_with_scheme(text) ==
    IF text # <<>> /\ Head(text) \in {"http://", "https://"}
    THEN text ELSE <<"http://">> \o text

load_url(s, text) ==
    LET url == url_with_scheme(text)
    IN  save_config([s EXCEPT !.browser.url = url, !.config.last_url = url])

\* Mutant: the stored index is applied without the range check.
apply_config_unchecked(s) ==
    LET s1 == setCurrentIndex(s, s.config.last_device_index)
    IN  load_url(s1, s1.config.last_url)

apply_config(s) ==
    LET idx == s.config.last_device_index
        s1  == IF 0 <= idx /\ idx < Len(s.device_combo.items)
               THEN setCurrentIndex(s, idx) ELSE s
    IN  load_url(s1, s1.config.last_url)

(***************************************************************************)
(* Device management dialogs (main.py).  A form is what the user typed     *)
(* into the four line edits when the dialog was accepted.                  *)
(***************************************************************************)
\* Mutant: only the width text is checked before the form is used.
form_parses_width_only(form) == int_text(form.width).ok

form_parses(form) ==
    /\ int_text(form.width).ok
    /\ int_text(form.height).ok
    /\ int_text(form.radius).ok

form_device(form) ==
    Device(form.name, int_text(form.width).value,
           int_text(form.height).value, int_text(form.radius).value)

\* show_add_device_dialog after dialog.exec() returned Accepted.
show_add_device_dialog(s, form) ==
    IF ~form_parses(form) THEN [s EXCEPT !.warning = "add"]
    ELSE
    LET d  == form_device(form)
        s1 == add_custom_device(s, d.name, d.width, d.height, d.radius)
        s2 == refresh_device_list(s1)
    IN  setCurrentIndex(s2, Len(s2.device_combo.items) - 1)

show_manage_devices_dialog(s) == [s EXCEPT !.dialog = "manage"]

\* show_edit_device_dialog after dialog.exec() returned Accepted.
show_edit_device_dialog(s, index, form) ==
    IF ~(0 <= index /\ index < Len(s.config.custom_devices))
    THEN [s EXCEPT !.exception = "IndexError"]
    ELSE IF ~form_parses(form) THEN [s EXCEPT !.warning = "edit"]
    ELSE
    LET d  == form_device(form)
        s1 == update_custom_device(s, index, d.name, d.width, d.height, d.radius)
        s2 == refresh_device_list(s1)
    IN  show_manage_devices_dialog(s2)

\* delete_device after the confirmation box answered Yes.
delete_device(s, idx) ==
    LET s1 == delete_custom_device(s, idx)
        s2 == refresh_device_list(s1)
    IN  show_manage_devices_dialog(s2)

(***************************************************************************)
(* Construction: ConfigManager.__init__ and PhoneSimulator.__init__.       *)
(***************************************************************************)
\* The widgets as their constructors leave them, before the first styling.
Blank(f) ==
    [config        |-> load_config(f),
     file          |-> f,
     device_combo  |-> [items |-> <<>>, currentIndex |-> -1],
     scale_combo   |-> 0,
     frame_combo   |-> 0,
     phone_frame   |-> [w |-> 0, h |-> 0, shadow_blur |-> 0, shadow_y |-> 0],
     bezel_overlay |-> [w |-> 0, h |-> 0, radius |-> 50, scale |-> 100,
                        base_color |-> "#111", border_color |-> "#444",
                        bezel_w |-> 16],
     screen_widget |-> [x |-> 0, y |-> 0, w |-> 0, h |-> 0,
                        mask_w |-> 0, mask_h |-> 0, mask_r |-> 0],
     island        |-> [w |-> 120, h |-> 28, r |-> 14, x |-> 0, y |-> 0],
     phone_copy    |-> [w |-> 0, y |-> 0],
     status_color  |-> "white",
     browser       |-> [url |-> <<>>, zoom |-> 100],
     window        |-> [w |-> 0, h |-> 0],
     dialog        |-> "none",
     warning       |-> "none",
     exception     |-> "none",
     api_call      |-> [op |-> "none", index |-> -1]]

\* init_ui followed by apply_initial_layout.
PhoneSimulator(f) ==
    LET s0  == Blank(f)
        \* refresh_device_list before the combo's signal is connected
        s1  == [s0 EXCEPT !.device_combo =
                   [items |-> labels(get_all_devices(s0.config)),
                    currentIndex |-> 0]]
        \* setCurrentText keeps the first entry when the text is not listed
        si  == scale_index_of(IntScaleTimes100(s1.config.last_scale))
        s2  == [s1 EXCEPT !.scale_combo = IF si >= 0 THEN si ELSE 0]
        s3  == update_phone_style(s2)
        s4  == apply_config(s3)
    IN  adjust_window_size(s4)

\* The state a handler starts from.  warning is what the handler reports in a
\* message box, which the user dismisses before the handler returns.
State ==
    [config |-> config, file |-> file, device_combo |-> device_combo,
     scale_combo |-> scale_combo, frame_combo |-> frame_combo,
     phone_frame |-> phone_frame, bezel_overlay |-> bezel_overlay,
     screen_widget |-> screen_widget, island |-> island,
     phone_copy |-> phone_copy, status_color |-> status_color,
     browser |-> browser, window |-> window, dialog |-> dialog,
     exception |-> exception, api_call |-> api_call,
     warning |-> "none"]

Becomes(s) ==
    /\ config' = s.config
    /\ file' = s.file
    /\ device_combo' = s.device_combo
    /\ scale_combo' = s.scale_combo
    /\ frame_combo' = s.frame_combo
    /\ phone_frame' = s.phone_frame
    /\ bezel_overlay' = s.bezel_overlay
    /\ screen_widget' = s.screen_widget
    /\ island' = s.island
    /\ phone_copy' = s.phone_copy
    /\ status_color' = s.status_color
    /\ browser' = s.browser
    /\ window' = s.window
    /\ dialog' = s.dialog
    /\ exception' = s.exception
    /\ api_call' = s.api_call

Starts(s) ==
    /\ config = s.config
    /\ file = s.file
    /\ device_combo = s.device_combo
    /\ scale_combo = s.scale_combo
    /\ frame_combo = s.frame_combo
    /\ phone_frame = s.phone_frame
    /\ bezel_overlay = s.bezel_overlay
    /\ screen_widget = s.screen_widget
    /\ island = s.island
    /\ phone_copy = s.phone_copy
    /\ status_color = s.status_color
    /\ browser = s.browser
    /\ window = s.window
    /\ dialog = s.dialog
    /\ exception = s.exception
    /\ api_call = s.api_call

(***************************************************************************)
(* Inputs.                                                                 *)
(***************************************************************************)
\* What the user submits in the add and edit forms.
FormInputs ==
    { [name |-> "Test", width |-> <<"3", "0", "0">>,
       height |-> <<"6", "0", "0">>, radius |-> <<"2", "0">>],
      [name |-> "Tiny", width |-> <<"9", "0">>,
       height |-> <<"1", "0">>, radius |-> <<" ", "5">>],
      [name |-> "Zero", width |-> <<"0">>,
       height |-> <<"-", "5">>, radius |-> <<"5", "0">>],
      [name |-> "Bad", width |-> <<>>,
       height |-> <<"6", "0", "0">>, radius |-> <<"5", "0">>],
      [name |-> "Half", width |-> <<"3", "0", "0">>,
       height |-> <<"6", "0", "0">>, radius |-> <<"1", ".", "5">>] }

\* The entries of the frame colour selector the user picks (black, white).
FrameChoices == {0, 4}

\* What the user types into the URL field.
UrlInputs == { DefaultUrl, <<"example.com">> }

\* Configuration files found at startup: none, or one written by an earlier
\* run or edited by hand.
StartupFiles ==
    { <<>>,
      << [last_url          |-> <<"example.com">>,
          last_device_index |-> 7,
          last_frame_color  |-> "#d4af37",
          last_frame_border |-> "#b8860b",
          last_scale        |-> 90,
          custom_devices    |-> <<Device("Test", 300, 600, 20)>>] >>,
      << [last_url          |-> DefaultUrl,
          last_device_index |-> -1,
          last_frame_color  |-> "#111",
          last_frame_border |-> "#444",
          last_scale        |-> 5,
          custom_devices    |-> <<>>] >> }

(***************************************************************************)
(* The application: one action per user event.                             *)
(***************************************************************************)
Init == \E f \in StartupFiles : Starts(PhoneSimulator(f))

\* The user picks entry i of the device selector.
SelectDevice ==
    \E i \in 0..(Len(device_combo.items) - 1) :
        /\ dialog = "none"
        /\ i # device_combo.currentIndex
        /\ Becomes(setCurrentIndex(State, i))

\* The user picks entry i of the frame colour selector.
SelectFrame ==
    \E i \in FrameChoices :
        /\ dialog = "none"
        /\ i # frame_combo
        /\ Becomes(on_frame_changed([State EXCEPT !.frame_combo = i]))

\* The user picks entry i of the scale selector.
SelectScale ==
    \E i \in 0..(Len(scale_items) - 1) :
        /\ dialog = "none"
        /\ i # scale_combo
        /\ Becomes(on_scale_changed([State EXCEPT !.scale_combo = i]))

\* The user types a URL and presses the connect button.
Connect ==
    \E u \in UrlInputs :
        /\ dialog = "none"
        /\ Becomes(load_url(State, u))

\* The user presses "+", fills the form and accepts it.
AddDevice ==
    \E form \in FormInputs :
        /\ dialog = "none"
        /\ Len(config.custom_devices) < MaxCustom
        /\ Becomes(show_add_device_dialog(State, form))

\* The user opens the manage dialog.
OpenManage ==
    /\ dialog = "none"
    /\ Becomes(show_manage_devices_dialog(State))

\* The user presses the edit button of row i, changes the form and accepts it.
EditDevice ==
    \E i \in 0..(Len(config.custom_devices) - 1), form \in FormInputs :
        /\ dialog = "manage"
        /\ Becomes(show_edit_device_dialog(State, i, form))

\* The user presses the delete button of row i and confirms.
DeleteDevice ==
    \E i \in 0..(Len(config.custom_devices) - 1) :
        /\ dialog = "manage"
        /\ Becomes(delete_device(State, i))

\* The user closes the manage dialog.
CloseManage ==
    /\ dialog = "manage"
    /\ Becomes([State EXCEPT !.dialog = "none"])

Next ==
    \/ SelectDevice
    \/ SelectFrame
    \/ SelectScale
    \/ Connect
    \/ AddDevice
    \/ OpenManage
    \/ EditDevice
    \/ DeleteDevice
    \/ CloseManage

Spec == Init /\ [][Next]_vars

(***************************************************************************)
(* The Device Profile Store on its own: a ConfigManager and a client that  *)
(* calls its methods with arbitrary arguments and, as PhoneSimulator does, *)
(* assigns fields of its config object.                                    *)
(***************************************************************************)
\* Devices a client passes to add_custom_device and update_custom_device.
StoreDevices ==
    { Device("Test", 300, 600, 20), Device("Tiny", 90, 10, 5),
      Device("Zero", 0, -5, 50), Device("Pad", 768, 1024, 18) }

\* Indices a client passes to delete_custom_device and update_custom_device.
StoreIndices == (-2)..(MaxCustom + 1)

Called(s, op, index) == Becomes([s EXCEPT !.api_call = [op |-> op, index |-> index]])

StoreInit == \E f \in StartupFiles : Starts(Blank(f))

StoreAdd ==
    \E d \in StoreDevices :
        /\ Len(config.custom_devices) < MaxCustom
        /\ Called(add_custom_device(State, d.name, d.width, d.height, d.radius),
                  "add", -1)

StoreDelete ==
    \E index \in StoreIndices :
        Called(delete_custom_device(State, index), "delete", index)

StoreUpdate ==
    \E index \in StoreIndices, d \in StoreDevices :
        Called(update_custom_device(State, index, d.name, d.width, d.height, d.radius),
               "update", index)

\* config["last_frame_color"], config["last_frame_border"] = base, border
StoreSetFrame ==
    \E i \in FrameChoices :
        Called([State EXCEPT !.config.last_frame_color  = frame_colors[i + 1].base,
                             !.config.last_frame_border = frame_colors[i + 1].border],
               "set_frame", i)

StoreNext ==
    \/ StoreAdd
    \/ StoreDelete
    \/ StoreUpdate
    \/ StoreSetFrame

StoreSpec == StoreInit /\ [][StoreNext]_vars

(***************************************************************************)
(* Properties.                                                             *)
(***************************************************************************)
BuiltInProfiles ==
    << [name |-> "iPhone 17", width |-> 393, height |-> 852, radius |-> 55],
       [name |-> "iPhone 16", width |-> 393, height |-> 852, radius |-> 55],
       [name |-> "iPhone 13/14/15", width |-> 390, height |-> 844, radius |-> 50],
       [name |-> "iPhone Pro Max", width |-> 430, height |-> 932, radius |-> 55],
       [name |-> "iPhone Mini", width |-> 375, height |-> 812, radius |-> 45] >>

TestProfile == [name |-> "Test", width |-> 300, height |-> 600, radius |-> 20]

TinyProfile == [name |-> "Tiny", width |-> 90, height |-> 10, radius |-> 5]

ZeroProfile == [name |-> "Zero", width |-> 0, height |-> -5, radius |-> 50]

ZeroForm ==
    [name |-> "Zero", width |-> <<"0">>, height |-> <<"-", "5">>,
     radius |-> <<"5", "0">>]

\* A configuration with its custom list blanked: every other field.
OtherFields(cfg) == [cfg EXCEPT !.custom_devices = <<>>]

InCustomRange(index, cfg) == 0 <= index /\ index < Len(cfg.custom_devices)

\* C1: in every state of the store listAll() is the 5 built-in profiles, in
\* their fixed order, followed by the custom list; and every step leaves the
\* combined list as it was, appends one element at its end, removes one
\* custom element, or replaces one custom element in place, so the custom
\* segment stays in insertion order and no built-in entry is ever touched.
C1_BuiltInsThenCustom ==
    /\ [](/\ Len(get_all_devices(config)) = 5 + Len(config.custom_devices)
          /\ SubSeq(get_all_devices(config), 1, 5) = BuiltInProfiles
          /\ SubSeq(get_all_devices(config), 6, Len(get_all_devices(config)))
                 = config.custom_devices)
    /\ [][LET a == get_all_devices(config)
              b == get_all_devices(config')
          IN  \/ b = a
              \/ Len(b) = Len(a) + 1 /\ SubSeq(b, 1, Len(a)) = a
              \/ \E i \in 6..Len(a) : b = RemoveAt(a, i)
              \/ /\ Len(b) = Len(a)
                 /\ \E i \in 6..Len(a) : \A j \in 1..Len(a) : j # i => b[j] = a[j]
         ]_vars

\* C1 witness: an in-range update has just been made on a store that holds
\* two different custom devices.
C1_Witness ==
    /\ api_call.op = "update"
    /\ api_call.index = 1
    /\ Len(config.custom_devices) = 2
    /\ config.custom_devices[1] # config.custom_devices[2]
    /\ Len(get_all_devices(config)) = 7

\* C2: from every state in which the add form can be opened, accepting it
\* with integer texts makes listAll() the previous list with exactly one
\* element appended, the profile that was typed in.
C2_AddAppendsOne ==
    dialog = "none" =>
        \A form \in FormInputs :
            form_parses(form) =>
                LET s2 == show_add_device_dialog(State, form)
                    a  == get_all_devices(config)
                    b  == get_all_devices(s2.config)
                IN  /\ Len(b) = Len(a) + 1
                    /\ SubSeq(b, 1, Len(a)) = a
                    /\ b[Len(b)].name = form.name
                    /\ b[Len(b)] \in {TestProfile, TinyProfile, ZeroProfile}
                    /\ (form.name = "Test" /\ config.custom_devices = <<>>)
                           => (Len(b) = 6 /\ b[6] = TestProfile)

\* C2 witness: started without a file (scale 0.7), the custom list holds the
\* one device that add("Test", 300, 600, 20) created, and it is selected.
C2_Witness ==
    /\ config.last_scale = 70
    /\ config.custom_devices = <<TestProfile>>
    /\ Len(get_all_devices(config)) = 6
    /\ get_all_devices(config)[6] = TestProfile
    /\ device_combo.currentIndex = 5

\* C3: from every state of the manage dialog, deleting row index removes
\* element 5 + index of the combined list and nothing else, leaves the
\* built-ins and every other field alone, and writes the file.
C3_DeleteRemovesCustomIndex ==
    dialog = "manage" =>
        \A index \in 0..(Len(config.custom_devices) - 1) :
            LET s2 == delete_device(State, index)
                a  == get_all_devices(config)
                b  == get_all_devices(s2.config)
            IN  /\ b = RemoveAt(a, 5 + index + 1)
                /\ SubSeq(b, 1, 5) = BuiltInProfiles
                /\ s2.config.custom_devices
                       = RemoveAt(config.custom_devices, index + 1)
                /\ OtherFields(s2.config) = OtherFields(config)
                /\ s2.file = <<s2.config>>

\* C3 witness: the manage dialog shows Test and Tiny; deleting row 0 leaves
\* Tiny, deleting row 1 (the last) leaves Test.
C3_Witness ==
    /\ dialog = "manage"
    /\ config.custom_devices = <<TestProfile, TinyProfile>>
    /\ delete_device(State, 0).config.custom_devices = <<TinyProfile>>
    /\ delete_device(State, 1).config.custom_devices = <<TestProfile>>

\* C4: a delete or update call whose index is outside the custom list
\* changes neither the configuration nor the file and raises nothing.
C4_OutOfRangeIgnored ==
    [][(/\ api_call'.op \in {"delete", "update"}
        /\ ~InCustomRange(api_call'.index, config))
           => (/\ config' = config
               /\ file' = file
               /\ exception' = "none")]_vars

\* C4 witness: update was just called with index = len(custom) on a non-empty
\* list while the file was behind the configuration, so a write would show.
C4_Witness ==
    /\ api_call.op = "update"
    /\ api_call.index = Len(config.custom_devices)
    /\ Len(config.custom_devices) >= 1
    /\ file # <<config>>

\* C5: from every state of the manage dialog, accepting the edit form of row
\* index with integer texts replaces that entry in place: same length, the
\* other entries and fields unchanged, the file written.
C5_UpdateReplacesInPlace ==
    dialog = "manage" =>
        \A index \in 0..(Len(config.custom_devices) - 1), form \in FormInputs :
            form_parses(form) =>
                LET s2  == show_edit_device_dialog(State, index, form)
                    old == config.custom_devices
                    new == s2.config.custom_devices
                IN  /\ Len(new) = Len(old)
                    /\ new[index + 1].name = form.name
                    /\ new[index + 1] \in {TestProfile, TinyProfile, ZeroProfile}
                    /\ \A j \in 1..Len(old) : j # index + 1 => new[j] = old[j]
                    /\ OtherFields(s2.config) = OtherFields(config)
                    /\ s2.file = <<s2.config>>

\* C5 witness: the manage dialog shows Test and Tiny; editing row 1 into
\* Zero gives Test, Zero.
C5_Witness ==
    /\ dialog = "manage"
    /\ config.custom_devices = <<TestProfile, TinyProfile>>
    /\ show_edit_device_dialog(State, 1, ZeroForm).config.custom_devices
           = <<TestProfile, ZeroProfile>>

\* C6 (as claimed): every custom profile has width, height and radius > 0.
C6_CustomProfilesPositive ==
    \A i \in 1..Len(config.custom_devices) :
        /\ config.custom_devices[i].width > 0
        /\ config.custom_devices[i].height > 0
        /\ config.custom_devices[i].radius > 0

\* C7 (as claimed): between events the file equals the configuration.
C7_FileEqualsConfig == file = <<config>>

(***************************************************************************)
(* Layout properties, stated on the geometry the widgets hold.             *)
(***************************************************************************)
\* The scaled bezel base width and the overlap of the screen under the bezel.
BezelBase == 16

Bleed == 1

\* v is k * pct/100 truncated toward zero: never beyond the exact product and
\* less than 1 short of it, or exactly 1 short when the double product falls
\* just under an integer, which happens at scale 0.7 only.
TruncatedProduct(v, k, pct) ==
    /\ (k >= 0 => v >= 0) /\ (k <= 0 => v <= 0)
    /\ 100 * Abs(v) <= Abs(k) * pct
    /\ Abs(k) * pct <= 100 * Abs(v) + 100
    /\ (Abs(k) * pct = 100 * Abs(v) + 100) => pct = 70

\* v is k * pct/100 rounded to a nearest integer.
RoundedProduct(v, k, pct) == 2 * Abs(100 * v - k * pct) <= 100

IsIPhone13At70 ==
    /\ get_current_device(State)
           = [name |-> "iPhone 13/14/15", width |-> 390, height |-> 844, radius |-> 50]
    /\ config.last_scale = 70

Screen == <<screen_widget.x, screen_widget.y, screen_widget.w, screen_widget.h>>

\* C8 (as claimed): the outer size and the bezel width are the rounded
\* products, and the (390, 844, 50) profile at 0.7 gives 273 x 591, bezel 11,
\* margin 10, screen (10, 10, 253, 571), inner radius 25.
C8_RoundedLayout ==
    /\ RoundedProduct(phone_frame.w, get_current_device(State).width, config.last_scale)
    /\ RoundedProduct(phone_frame.h, get_current_device(State).height, config.last_scale)
    /\ RoundedProduct(bezel_overlay.bezel_w, BezelBase, config.last_scale)
    /\ screen_widget.x = bezel_overlay.bezel_w - Bleed
    /\ IsIPhone13At70 =>
          /\ phone_frame.w = 273 /\ phone_frame.h = 591
          /\ bezel_overlay.bezel_w = 11
          /\ Screen = <<10, 10, 253, 571>>
          /\ screen_widget.mask_r = 25

\* C8 (amended): the outer size and the bezel width are the products
\* truncated toward zero, margin = bezelWidth - 1, and the (390, 844, 50)
\* profile at 0.7 gives 273 x 590, bezel 11, margin 10, screen
\* (10, 10, 253, 570), inner radius 25.
C8_TruncatedLayout ==
    /\ TruncatedProduct(phone_frame.w, get_current_device(State).width, config.last_scale)
    /\ TruncatedProduct(phone_frame.h, get_current_device(State).height, config.last_scale)
    /\ TruncatedProduct(bezel_overlay.bezel_w, BezelBase, config.last_scale)
    /\ screen_widget.x = bezel_overlay.bezel_w - Bleed
    /\ IsIPhone13At70 =>
          /\ phone_frame.w = 273 /\ phone_frame.h = 590
          /\ bezel_overlay.bezel_w = 11
          /\ Screen = <<10, 10, 253, 570>>
          /\ screen_widget.mask_r = 25

\* C8 witness: the (390, 844, 50) profile is laid out at scale 0.7.
C8_Witness ==
    /\ IsIPhone13At70
    /\ phone_frame.w = 273 /\ phone_frame.h = 590
    /\ Screen = <<10, 10, 253, 570>>

\* The rectangle <<x, y, w, h>> lies strictly inside (0, 0, ow, oh).
StrictlyInside(r, ow, oh) ==
    /\ 0 < r[1] /\ r[1] <= r[1] + r[3] /\ r[1] + r[3] < ow
    /\ 0 < r[2] /\ r[2] <= r[2] + r[4] /\ r[2] + r[4] < oh

ScreenIsInset ==
    LET m == bezel_overlay.bezel_w - Bleed
    IN  Screen = <<m, m, phone_frame.w - 2 * m, phone_frame.h - 2 * m>>

\* C9 (as claimed): the screen rectangle is inset by margin on all sides and
\* lies strictly inside the outer frame whenever margin > 0 and
\* outerWidth > 2*margin.
C9_InsetInsideWhenWide ==
    /\ ScreenIsInset
    /\ (screen_widget.x > 0 /\ phone_frame.w > 2 * screen_widget.x)
           => StrictlyInside(Screen, phone_frame.w, phone_frame.h)

\* C9 (amended): the screen rectangle is inset by margin on all sides and
\* lies strictly inside the outer frame whenever margin > 0,
\* outerWidth > 2*margin and outerHeight > 2*margin.
C9_InsetInsideWhenWideAndTall ==
    /\ ScreenIsInset
    /\ (/\ screen_widget.x > 0
        /\ phone_frame.w > 2 * screen_widget.x
        /\ phone_frame.h > 2 * screen_widget.x)
           => StrictlyInside(Screen, phone_frame.w, phone_frame.h)

\* C9 witness: a custom device is selected whose screen rectangle has room
\* on both axes and lies strictly inside the frame.
C9_Witness ==
    /\ device_combo.currentIndex >= 5
    /\ screen_widget.x > 0
    /\ phone_frame.w > 2 * screen_widget.x
    /\ phone_frame.h > 2 * screen_widget.x
    /\ StrictlyInside(Screen, phone_frame.w, phone_frame.h)

\* C10 (as claimed): the corner radius of the screen mask is
\* max(0, innerRadius_raw - margin) with margin = bezelWidth - bleed, hence
\* never negative.  (The claim adds that the hole in the bezel has the same
\* radius; paintEvent takes margin = bezelWidth there, so that the two differ
\* by the bleed already at startup: 25 for the mask, 24 for the hole.)
C10_InnerRadiusClamped ==
    /\ screen_widget.mask_r
           = Max(0, bezel_overlay.radius - (bezel_overlay.bezel_w - Bleed))
    /\ screen_widget.mask_r >= 0

\* C11 (as claimed): the width and height handed to the screen layer and to
\* its mask are never negative; a profile too small for the scaled bezel gets
\* a rectangle clamped to zero.
C11_InnerSizeClamped ==
    /\ screen_widget.w >= 0 /\ screen_widget.h >= 0
    /\ screen_widget.mask_w >= 0 /\ screen_widget.mask_h >= 0

HalfForm ==
    [name |-> "Half", width |-> <<"3", "0", "0">>,
     height |-> <<"6", "0", "0">>, radius |-> <<"1", ".", "5">>]

\* C12: accepting the add form or the edit form with a width, height or
\* radius text that int() rejects only shows the warning: the configuration,
\* the file, the selection and every widget are as they were.
C12_BadFormChangesNothing ==
    \A form \in FormInputs :
        ~(int_text(form.width).ok /\ int_text(form.height).ok
              /\ int_text(form.radius).ok) =>
            /\ dialog = "none" =>
                   show_add_device_dialog(State, form)
                       = [State EXCEPT !.warning = "add"]
            /\ dialog = "manage" =>
                   \A index \in 0..(Len(config.custom_devices) - 1) :
                       show_edit_device_dialog(State, index, form)
                           = [State EXCEPT !.warning = "edit"]

\* C12 witness: the manage dialog shows a custom device while the file is
\* behind the configuration, and accepting its edit form with radius "1.5"
\* ends in the warning.
C12_Witness ==
    /\ dialog = "manage"
    /\ Len(config.custom_devices) >= 1
    /\ file # <<config>>
    /\ show_edit_device_dialog(State, 0, HalfForm).warning = "edit"
    /\ show_edit_device_dialog(State, 0, HalfForm).config = config

\* The geometry of the four layers, as a record.
Geometry(s) ==
    [frame  |-> s.phone_frame,
     bezel  |-> [w |-> s.bezel_overlay.w, h |-> s.bezel_overlay.h,
                 radius |-> s.bezel_overlay.radius,
                 bezel_w |-> s.bezel_overlay.bezel_w],
     screen |-> s.screen_widget,
     notch  |-> s.island]

\* The layout computed from nothing but a profile and a scale: a freshly
\* constructed window whose only custom device is the profile, styled once.
LayoutFor(device, scale) ==
    Geometry(update_phone_style(
        [Blank(<<>>) EXCEPT !.config.custom_devices = <<device>>,
                            !.config.last_scale = scale,
                            !.device_combo.currentIndex = 5]))

\* C13: between events the geometry applied to the frame, the bezel, the
\* screen and the notch is the layout computed from the selected profile and
\* the current scale alone, so it is never stale and two states with the
\* same profile and scale show the same geometry.
C13_GeometryNeverStale ==
    /\ exception = "none"
    /\ Geometry(State) = LayoutFor(get_current_device(State), config.last_scale)
    /\ Geometry(update_phone_style(State)) = Geometry(State)

\* C13 witness: the Tiny profile was added after another custom device, the
\* scale was changed to 50%, and the frame shows 45 x 5.
C13_Witness ==
    /\ Len(config.custom_devices) = 2
    /\ get_current_device(State) = TinyProfile
    /\ device_combo.currentIndex = 6
    /\ config.last_scale = 50
    /\ phone_frame.w = 45 /\ phone_frame.h = 5

\* C14: the device selector never points past the combined list, the
\* selected device is an element of the list, an unset selection (-1) gives
\* the first built-in, deleting any custom device (the selected one
\* included) leaves a valid selection, and a successful add selects the new
\* profile.
C14_SelectionInRange ==
    LET devices == get_all_devices(config)
    IN  /\ exception = "none"
        /\ -1 <= device_combo.currentIndex
        /\ device_combo.currentIndex < Len(devices)
        /\ Len(device_combo.items) = Len(devices)
        /\ \E k \in 1..Len(devices) : get_current_device(State) = devices[k]
        /\ get_current_device([State EXCEPT !.device_combo.currentIndex = -1])
               = BuiltInProfiles[1]
        /\ dialog = "manage" =>
               \A idx \in 0..(Len(config.custom_devices) - 1) :
                   LET s2 == delete_device(State, idx)
                   IN  /\ s2.exception = "none"
                       /\ s2.device_combo.currentIndex \in
                              0..(Len(get_all_devices(s2.config)) - 1)
        /\ dialog = "none" =>
               \A form \in FormInputs :
                   LET s2 == show_add_device_dialog(State, form)
                   IN  s2.warning = "none" =>
                           /\ s2.exception = "none"
                           /\ s2.device_combo.currentIndex
                                  = Len(get_all_devices(s2.config)) - 1
                           /\ get_current_device(s2)
                                  = Device(form.name,
                                           int_text(form.width).value,
                                           int_text(form.height).value,
                                           int_text(form.radius).value)

\* C14 witness: the file named device 7 of six, so the window started on
\* the first built-in; the only custom device was then deleted in the manage
\* dialog, and the selector is on the first built-in of the five left.
C14_Witness ==
    /\ config.last_device_index = 7
    /\ config.custom_devices = <<>>
    /\ dialog = "manage"
    /\ device_combo.currentIndex = 0
    /\ get_current_device(State) = BuiltInProfiles[1]

====
